---- MODULE Spec2Model ----
(***************************************************************************)
(* Model of src/inactive-regions.ts: the inactive-region tracker of the    *)
(* clangd extension.  Token buffers are Uint32Array values, modelled as    *)
(* sequences of naturals indexed from 1 (JavaScript index i is i + 1).     *)
(***************************************************************************)
EXTENDS Integers, Sequences, FiniteSets, TLC

VARIABLES
    inactiveCodeTokenTypeIndex,         \* line 18
    inactiveCodeTokenTypeReplaceIndex,  \* line 19
    lastTokens,                         \* line 46: WeakMap document -> SemanticTokens
    lastInactiveRanges,                 \* line 47: WeakMap document -> Range[]
    visibleTextEditors,                 \* vscode.window.visibleTextEditors
    decorations,                        \* editor -> ranges of its last setDecorations
    initialized,                        \* initialize() has run for this session
    call                                \* the handler invocation that ran last

vars == <<inactiveCodeTokenTypeIndex, inactiveCodeTokenTypeReplaceIndex,
          lastTokens, lastInactiveRanges, visibleTextEditors, decorations,
          initialized, call>>

----------------------------------------------------------------------------
(* JavaScript values.  Every number the program handles is a natural, so   *)
(* undefined and NaN are encoded as two negative integers.                 *)

undefined == 0 - 1
NaN == 0 - 2

\* a + b on numbers; undefined + n and NaN + n are NaN
Plus(a, b) == IF a < 0 \/ b < 0 THEN NaN ELSE a + b

\* a == b (loose equality): NaN equals nothing, undefined equals undefined
LooseEq(a, b) == a # NaN /\ a = b

\* typed-array read data[i]: undefined past the end
At(data, i) == IF i >= 0 /\ i < Len(data) THEN data[i + 1] ELSE undefined

\* new Uint32Array(n): n zeroes
Zeroes(n) == [i \in 1..n |-> 0]

\* src.subarray(begin, end) for begin, end >= 0: both clamped to the length
subarray(src, begin, end) ==
    LET b == IF begin < Len(src) THEN begin ELSE Len(src)
        e == IF end < Len(src) THEN end ELSE Len(src)
    IN  IF e <= b THEN <<>> ELSE SubSeq(src, b + 1, e)

\* dest.set(source, offset): RangeError when the source does not fit
SetThrows(dest, source, offset) == offset + Len(source) > Len(dest)

SetAt(dest, source, offset) ==
    [i \in 1..Len(dest) |->
        IF i > offset /\ i <= offset + Len(source) THEN source[i - offset]
        ELSE dest[i]]

----------------------------------------------------------------------------
(* Payloads.  A SemanticTokens object has a data field, a                  *)
(* SemanticTokensEdits object has edits and no data field.                 *)

Stride == 5

SemanticTokens(resultId, data) ==
    [resultId |-> resultId, hasData |-> TRUE, data |-> data, edits |-> <<>>]

SemanticTokensEdits(resultId, edits) ==
    [resultId |-> resultId, hasData |-> FALSE, data |-> <<>>, edits |-> edits]

\* one SemanticTokensEdit; hasData is FALSE when edit.data is undefined
SemanticTokensEdit(start, deleteCount, hasData, data) ==
    [start |-> start, deleteCount |-> deleteCount, hasData |-> hasData,
     data |-> data]

Range(startLine, startCharacter, endLine, endCharacter) ==
    [startLine |-> startLine, startCharacter |-> startCharacter,
     endLine |-> endLine, endCharacter |-> endCharacter]

\* mutant: a payload counts as full only when its data is not empty
isSemanticTokens_nonEmpty(tokens) == tokens.hasData /\ tokens.data # <<>>

\* lines 156-160
isSemanticTokens(tokens) == tokens.hasData

----------------------------------------------------------------------------
(* Token codec                                                              *)

\* number of iterations of "for (tokenIndex = 0; tokenIndex < length / 5; ...)"
TokenCount(data) == (Len(data) + Stride - 1) \div Stride

\* mutant: the loop body tests the field before the type field
ReplaceStep_lengthField(data, offset) ==
    IF LooseEq(At(data, offset + 2), inactiveCodeTokenTypeIndex)
       /\ offset + 3 < Len(data)
    THEN [data EXCEPT ![offset + 4] = inactiveCodeTokenTypeReplaceIndex]
    ELSE data

\* the loop body of replaceInactiveRanges (lines 69-72); a typed-array write
\* past the end is ignored
ReplaceStep(data, offset) ==
    IF LooseEq(At(data, offset + 3), inactiveCodeTokenTypeIndex)
       /\ offset + 3 < Len(data)
    THEN [data EXCEPT ![offset + 4] = inactiveCodeTokenTypeReplaceIndex]
    ELSE data

RECURSIVE ReplaceLoop(_, _)
ReplaceLoop(data, tokenIndex) ==
    IF tokenIndex >= TokenCount(data) THEN data
    ELSE ReplaceLoop(ReplaceStep(data, Stride * tokenIndex), tokenIndex + 1)

\* the result is a fresh array (lines 65-66); tokens.data is left as it was
replaceInactiveRanges(tokens) ==
    SemanticTokens(tokens.resultId, ReplaceLoop(tokens.data, 0))

\* mutant: the column is always taken relative to the previous token
StartCharacter_alwaysRelative(deltaLine, lastStartCharacter, deltaCharacter) ==
    Plus(lastStartCharacter, deltaCharacter)

\* lines 89-93
StartCharacter(deltaLine, lastStartCharacter, deltaCharacter) ==
    IF deltaLine = 0 THEN Plus(lastStartCharacter, deltaCharacter)
    ELSE deltaCharacter

\* mutant: the decoder looks for the replacement index
IsInactive_replaceIndex(tokenTypeIndex) ==
    LooseEq(tokenTypeIndex, inactiveCodeTokenTypeReplaceIndex)

\* line 96
IsInactive(tokenTypeIndex) == LooseEq(tokenTypeIndex, inactiveCodeTokenTypeIndex)

\* the loop of computeInactiveRanges
RECURSIVE ComputeLoop(_, _, _, _, _)
ComputeLoop(data, tokenIndex, lastLineNumber, lastStartCharacter, inactiveRanges) ==
    IF tokenIndex >= TokenCount(data) THEN inactiveRanges
    ELSE LET offset         == Stride * tokenIndex
             deltaLine      == At(data, offset)
             deltaCharacter == At(data, offset + 1)
             lineNumber     == Plus(lastLineNumber, deltaLine)
             startCharacter == StartCharacter(deltaLine, lastStartCharacter,
                                              deltaCharacter)
             length         == At(data, offset + 2)
             tokenTypeIndex == At(data, offset + 3)
             pushed == IF IsInactive(tokenTypeIndex)
                       THEN Append(inactiveRanges,
                                   Range(lineNumber, startCharacter, lineNumber,
                                         Plus(startCharacter, length)))
                       ELSE inactiveRanges
         IN  ComputeLoop(data, tokenIndex + 1, lineNumber, startCharacter,
                         pushed)

computeInactiveRanges(tokens) == ComputeLoop(tokens.data, 0, 0, 0, <<>>)

----------------------------------------------------------------------------
(* Delta reconstruction                                                     *)

EditDataLength(edit) == IF edit.hasData THEN Len(edit.data) ELSE 0

RECURSIVE DeltaLength(_)
DeltaLength(edits) ==
    IF edits = <<>> THEN 0
    ELSE EditDataLength(Head(edits)) - Head(edits).deleteCount
         + DeltaLength(Tail(edits))

\* copy(dest, destOffset, src, srcOffset, length), as [threw, dest]
copy(dest, destOffset, src, srcOffset, length) ==
    LET part == subarray(src, srcOffset, srcOffset + length)
    IN  IF SetThrows(dest, part, destOffset)
        THEN [threw |-> TRUE, dest |-> dest]
        ELSE [threw |-> FALSE, dest |-> SetAt(dest, part, destOffset)]

\* mutant: the read cursor is not moved past the deleted elements
NextReadIndex_noDelete(edit) == edit.start

\* line 148
NextReadIndex(edit) == edit.start + edit.deleteCount

\* the second loop of applyDelta, as [threw, dest, readIndex, insertIndex]
RECURSIVE EditLoop(_, _, _, _, _)
EditLoop(edits, srcData, destData, readIndex, insertIndex) ==
    IF edits = <<>>
    THEN [threw |-> FALSE, dest |-> destData, readIndex |-> readIndex,
          insertIndex |-> insertIndex]
    ELSE LET edit      == Head(edits)
             copyCount == edit.start - readIndex
             c1 == IF copyCount > 0
                   THEN copy(destData, insertIndex, srcData, readIndex, copyCount)
                   ELSE [threw |-> FALSE, dest |-> destData]
             i1 == IF copyCount > 0 THEN insertIndex + copyCount ELSE insertIndex
             c2 == IF edit.hasData /\ ~c1.threw
                   THEN copy(c1.dest, i1, edit.data, 0, Len(edit.data))
                   ELSE c1
             i2 == IF edit.hasData THEN i1 + Len(edit.data) ELSE i1
         IN  IF c2.threw
             THEN [threw |-> TRUE, dest |-> destData, readIndex |-> readIndex,
                   insertIndex |-> insertIndex]
             ELSE EditLoop(Tail(edits), srcData, c2.dest,
                           NextReadIndex(edit), i2)

\* applyDelta(prev, delta), as [threw, value]; threw is a RangeError
applyDelta(prev, delta) ==
    LET srcData == prev.data
        destLen == Len(srcData) + DeltaLength(delta.edits)
        failed  == [threw |-> TRUE, value |-> SemanticTokens(delta.resultId, <<>>)]
    IN  IF destLen < 0 THEN failed
        ELSE LET loop == EditLoop(delta.edits, srcData, Zeroes(destLen), 0, 0)
                 tail == IF ~loop.threw /\ loop.readIndex < Len(srcData)
                         THEN copy(loop.dest, loop.insertIndex, srcData,
                                   loop.readIndex, Len(srcData) - loop.readIndex)
                         ELSE [threw |-> loop.threw, dest |-> loop.dest]
             IN  IF tail.threw THEN failed
                 ELSE [threw |-> FALSE,
                       value |-> SemanticTokens(delta.resultId, tail.dest)]

----------------------------------------------------------------------------
(* Documents, editors and the two WeakMaps                                  *)

Documents == {"d1", "d2"}

\* every editor and the document it shows (editor.document): e1 and e3 are
\* two views of d1
EditorDocument == [e1 |-> "d1", e2 |-> "d2", e3 |-> "d1"]
Editors == DOMAIN EditorDocument

\* the editors of a session with one view for each document
SessionEditors == {"e1", "e2"}

\* the order in which a loop visits a set of editors
EditorOrder == <<"e1", "e2", "e3">>
InOrder(editors) == SelectSeq(EditorOrder, LAMBDA e : e \in editors)

\* mutant: the map holds one entry, the last one set
MapSet_singleEntry(map, key, value) == [k \in {key} |-> value]

\* map.set(key, value)
MapSet(map, key, value) ==
    [k \in DOMAIN map \cup {key} |-> IF k = key THEN value ELSE map[k]]

\* One handler run works on a record h of the state it may write:
\* lastTokens, lastInactiveRanges, decorations, and what the run did:
\* requests (the setDecorations calls, in order), decodes (the number of
\* computeInactiveRanges calls, each stored by lastInactiveRanges.set),
\* stores (the number of lastTokens.set calls), ret (the value returned),
\* threw.
NoValue == SemanticTokens("", <<>>)

Entry ==
    [lastTokens |-> lastTokens, lastInactiveRanges |-> lastInactiveRanges,
     decorations |-> decorations, requests |-> <<>>, decodes |-> 0,
     stores |-> 0, ret |-> NoValue, threw |-> FALSE]

\* mutant: a document without cached ranges is decorated with no ranges
applyInactiveRegions_emptyOnMiss(h, editor) ==
    LET inactiveRanges ==
            IF EditorDocument[editor] \in DOMAIN h.lastInactiveRanges
            THEN h.lastInactiveRanges[EditorDocument[editor]]
            ELSE <<>>
    IN  [h EXCEPT !.decorations = MapSet(@, editor, inactiveRanges),
                  !.requests = Append(@, [editor |-> editor,
                                          ranges |-> inactiveRanges])]

\* lines 49-54
applyInactiveRegions(h, editor) ==
    IF EditorDocument[editor] \in DOMAIN h.lastInactiveRanges
    THEN LET inactiveRanges == h.lastInactiveRanges[EditorDocument[editor]]
         IN  [h EXCEPT !.decorations = MapSet(@, editor, inactiveRanges),
                       !.requests = Append(@, [editor |-> editor,
                                               ranges |-> inactiveRanges])]
    ELSE h

RECURSIVE ApplyEach(_, _)
ApplyEach(h, editors) ==
    IF editors = <<>> THEN h
    ELSE ApplyEach(applyInactiveRegions(h, Head(editors)), Tail(editors))

\* mutant: the loop stops at the first visible view of the document
applyInactiveRegionsToDocument_firstView(h, document) ==
    LET views == SelectSeq(InOrder(visibleTextEditors),
                           LAMBDA e : EditorDocument[e] = document)
    IN  ApplyEach(h, IF views = <<>> THEN <<>> ELSE <<Head(views)>>)

\* lines 56-62
applyInactiveRegionsToDocument(h, document) ==
    ApplyEach(h, SelectSeq(InOrder(visibleTextEditors),
                           LAMBDA e : EditorDocument[e] = document))

\* mutant: the remapped copy is cached instead of the payload
CacheTokens_remapped(h, document, tokens) ==
    [h EXCEPT !.lastTokens = MapSet(@, document, replaceInactiveRanges(tokens)),
              !.stores = @ + 1]

\* line 117
CacheTokens(h, document, tokens) ==
    [h EXCEPT !.lastTokens = MapSet(@, document, tokens), !.stores = @ + 1]

\* mutant: the new ranges are added to the ranges cached before
CacheRanges_patched(h, document, tokens) ==
    [h EXCEPT !.lastInactiveRanges =
                  MapSet(@, document,
                         (IF document \in DOMAIN @ THEN @[document] ELSE <<>>)
                         \o computeInactiveRanges(tokens)),
              !.decodes = @ + 1]

\* line 118
CacheRanges(h, document, tokens) ==
    [h EXCEPT !.lastInactiveRanges =
                  MapSet(@, document, computeInactiveRanges(tokens)),
              !.decodes = @ + 1]

\* mutant: the payload itself is returned, not its remapped copy
provideDocumentSemanticTokens_noRemap(h, document, tokens) ==
    [applyInactiveRegionsToDocument(
         CacheRanges(CacheTokens(h, document, tokens), document, tokens),
         document) EXCEPT !.ret = tokens]

\* mutant: the views are decorated before the new ranges are cached
provideDocumentSemanticTokens_applyFirst(h, document, tokens) ==
    LET h1 == applyInactiveRegionsToDocument(h, document)
        h2 == CacheTokens(h1, document, tokens)
        h3 == CacheRanges(h2, document, tokens)
    IN  [h3 EXCEPT !.ret = replaceInactiveRanges(tokens)]

\* lines 114-121
provideDocumentSemanticTokens(h, document, tokens) ==
    LET h1 == CacheTokens(h, document, tokens)
        h2 == CacheRanges(h1, document, tokens)
        h3 == applyInactiveRegionsToDocument(h2, document)
    IN  [h3 EXCEPT !.ret = replaceInactiveRanges(tokens)]

\* mutant: the resultId of the cached buffer is not compared
CacheMiss_absentOnly(h, document, previousResultId) ==
    document \notin DOMAIN h.lastTokens

\* mutant: the comparison of the resultIds is inverted
CacheMiss_sameId(h, document, previousResultId) ==
    \/ document \notin DOMAIN h.lastTokens
    \/ h.lastTokens[document].resultId = previousResultId

\* line 168
CacheMiss(h, document, previousResultId) ==
    \/ document \notin DOMAIN h.lastTokens
    \/ h.lastTokens[document].resultId # previousResultId

provideDocumentSemanticTokensEdits(h, document, previousResultId, tokens) ==
    IF ~isSemanticTokens(tokens)
    THEN IF CacheMiss(h, document, previousResultId)
         THEN [h EXCEPT !.ret = tokens]
         ELSE LET applied == applyDelta(h.lastTokens[document], tokens)
              IN  IF applied.threw THEN [h EXCEPT !.threw = TRUE]
                  ELSE provideDocumentSemanticTokens(h, document, applied.value)
    ELSE provideDocumentSemanticTokens(h, document, tokens)

\* mutant: the listener walks the editors that were visible before the event
onDidChangeVisibleTextEditors_stale(h, editors) ==
    ApplyEach(h, InOrder(visibleTextEditors))

\* the listener registered in activate
onDidChangeVisibleTextEditors(h, editors) == ApplyEach(h, InOrder(editors))

----------------------------------------------------------------------------
(* Capability resolution                                                    *)

\* capabilities.semanticTokensProvider: absent, or a legend of token types
NoProvider == [hasProvider |-> FALSE, tokenTypes |-> <<>>]
Provider(tokenTypes) == [hasProvider |-> TRUE, tokenTypes |-> tokenTypes]

\* mutant: the position after the match is recorded
RECURSIVE FindComment_offByOne(_, _, _)
FindComment_offByOne(tokenTypes, i, found) ==
    IF i >= Len(tokenTypes) THEN found
    ELSE FindComment_offByOne(tokenTypes, i + 1,
                              IF tokenTypes[i + 1] = "comment" THEN i + 1
                              ELSE found)

\* the loop of lines 32-36: the last position of 'comment', if any
RECURSIVE FindComment(_, _, _)
FindComment(tokenTypes, i, found) ==
    IF i >= Len(tokenTypes) THEN found
    ELSE FindComment(tokenTypes, i + 1,
                     IF tokenTypes[i + 1] = "comment" THEN i ELSE found)

\* mutant: the position of the last declared token type
ReplaceIndex_lastType(tokenTypes) == Len(tokenTypes) - 1

\* line 37: one past the last declared token type
ReplaceIndex(tokenTypes) == Len(tokenTypes)

----------------------------------------------------------------------------
(* Inputs                                                                   *)

TokComment == <<0, 2, 3, 1, 0>>
TokType == <<1, 1, 2, 0, 0>>

\* what the backend of a session may advertise
Capabilities == {NoProvider, Provider(<<"type", "comment">>)}

ResultIds == {"r1", "r2"}

\* Document d1 is sent every kind of payload: whole tokens, a buffer cut
\* short, and edits that replace a token, delete one, insert one, replace one
\* by a partial token, or lie outside the buffer.  Document d2 stands for any other open document
\* and is sent a shorter script: one full buffer and one edit of it.
FullPayloads(document) ==
    IF document = "d1"
    THEN {SemanticTokens(r, d) :
              r \in ResultIds,
              d \in {<<>>, TokComment, TokType, SubSeq(TokComment, 1, 3)}}
    ELSE {SemanticTokens("r1", TokComment)}

EditPayloads(document) ==
    IF document = "d1"
    THEN {SemanticTokensEdits(r, e) :
              r \in ResultIds,
              e \in { <<SemanticTokensEdit(0, 5, TRUE, TokType)>>,
                      <<SemanticTokensEdit(0, 5, FALSE, <<>>)>>,
                      <<SemanticTokensEdit(0, 0, TRUE, TokComment)>>,
                      <<SemanticTokensEdit(0, 5, TRUE, SubSeq(TokComment, 1, 3))>>,
                      <<SemanticTokensEdit(7, 0, FALSE, <<>>)>> }}
    ELSE {SemanticTokensEdits("r2", <<SemanticTokensEdit(0, 5, TRUE, TokType)>>)}

Payloads(document) == FullPayloads(document) \cup EditPayloads(document)

\* longest buffer a session is followed to
MaxBufLen == 5

----------------------------------------------------------------------------
(* The session                                                              *)

Init ==
    /\ inactiveCodeTokenTypeIndex = undefined
    /\ inactiveCodeTokenTypeReplaceIndex = undefined
    /\ lastTokens = <<>>
    /\ lastInactiveRanges = <<>>
    /\ visibleTextEditors = {}
    /\ decorations = <<>>
    /\ initialized = FALSE
    /\ call = [op |-> "none", document |-> "", ret |-> NoValue,
               requests |-> <<>>, decodes |-> 0, stores |-> 0,
               threw |-> FALSE]

\* InactiveRegionsFeature.initialize
initialize(capabilities) ==
    /\ ~initialized
    /\ initialized' = TRUE
    /\ IF capabilities.hasProvider
       THEN /\ inactiveCodeTokenTypeIndex' =
                   FindComment(capabilities.tokenTypes, 0,
                               inactiveCodeTokenTypeIndex)
            /\ inactiveCodeTokenTypeReplaceIndex' =
                   ReplaceIndex(capabilities.tokenTypes)
       ELSE UNCHANGED <<inactiveCodeTokenTypeIndex,
                        inactiveCodeTokenTypeReplaceIndex>>
    /\ call' = [op |-> "initialize", document |-> "", ret |-> NoValue,
                requests |-> <<>>, decodes |-> 0, stores |-> 0,
               threw |-> FALSE]
    /\ UNCHANGED <<lastTokens, lastInactiveRanges, visibleTextEditors,
                   decorations>>

\* a handler run h becomes the next state; a run that threw wrote nothing
\* before it threw
Commit(op, document, h) ==
    /\ lastTokens' = h.lastTokens
    /\ lastInactiveRanges' = h.lastInactiveRanges
    /\ decorations' = h.decorations
    /\ call' = [op |-> op, document |-> document, ret |-> h.ret,
                requests |-> h.requests, decodes |-> h.decodes,
                stores |-> h.stores, threw |-> h.threw]
    /\ UNCHANGED <<inactiveCodeTokenTypeIndex,
                   inactiveCodeTokenTypeReplaceIndex, initialized>>

\* the run leaves no buffer longer than MaxBufLen in the cache
Within(h) ==
    \A d \in DOMAIN h.lastTokens : Len(h.lastTokens[d].data) <= MaxBufLen

FullTokens(document, tokens) ==
    /\ initialized
    /\ isSemanticTokens(tokens)
    /\ Commit("full", document,
              provideDocumentSemanticTokens(Entry, document, tokens))
    /\ UNCHANGED visibleTextEditors

TokensEdits(document, previousResultId, tokens) ==
    /\ initialized
    /\ Commit("edits", document,
              provideDocumentSemanticTokensEdits(Entry, document,
                                                 previousResultId, tokens))
    /\ UNCHANGED visibleTextEditors

VisibleTextEditorsChanged(editors) ==
    /\ editors # visibleTextEditors
    /\ visibleTextEditors' = editors
    /\ Commit("visible", "", onDidChangeVisibleTextEditors(Entry, editors))

Next ==
    \/ \E c \in Capabilities : initialize(c)
    \/ \E d \in Documents : \E t \in FullPayloads(d) : FullTokens(d, t)
    \/ \E d \in Documents, p \in ResultIds :
          \E t \in Payloads(d) :
              /\ Within(provideDocumentSemanticTokensEdits(Entry, d, p, t))
              /\ TokensEdits(d, p, t)
    \/ \E editors \in SUBSET SessionEditors :
          VisibleTextEditorsChanged(editors)

Spec == Init /\ [][Next]_vars

----------------------------------------------------------------------------
(* Claims about the session                                                 *)

\* number of setDecorations calls a handler run made on an editor
RequestsTo(requests, editor) ==
    Cardinality({i \in 1..Len(requests) : requests[i].editor = editor})

\* C2: a delta for a document with no cached buffer, or whose cached resultId
\* differs from previousResultId, is returned as it was given; the cached
\* buffer, resultId and ranges stay as they were and no rendering request is
\* issued.  Stated of the handler run on every delta in every reachable state.
C2_CacheMissFallback ==
    initialized =>
    \A d \in Documents, p \in ResultIds : \A t \in EditPayloads(d) :
        (d \notin DOMAIN lastTokens \/ lastTokens[d].resultId # p)
        => LET h == provideDocumentSemanticTokensEdits(Entry, d, p, t)
           IN  /\ h.ret = t
               /\ ~h.threw
               /\ h.requests = <<>>
               /\ h.decodes = 0
               /\ h.lastTokens = lastTokens
               /\ h.lastInactiveRanges = lastInactiveRanges
               /\ h.decorations = decorations

\* a delta came back although the document has a cached buffer: its resultId
\* was not the expected one
C2_Witness ==
    /\ call.op = "edits"
    /\ ~call.ret.hasData
    /\ ~call.threw
    /\ call.document \in DOMAIN lastTokens
    /\ visibleTextEditors = SessionEditors

\* C4: a delta whose previousResultId is the cached resultId replaces the
\* cache entry by {delta.resultId, applyDelta(cached, delta)} in the backend's
\* encoding, the cached ranges by the decode of that buffer, and returns the
\* remapped copy of it under delta.resultId, a full result.  Stated of the
\* handler run on every delta in every reachable state.
C4_DeltaCacheHit ==
    initialized =>
    \A d \in DOMAIN lastTokens : \A t \in EditPayloads(d) :
        ~applyDelta(lastTokens[d], t).threw
        => LET h == provideDocumentSemanticTokensEdits(
                        Entry, d, lastTokens[d].resultId, t)
               rebuilt == applyDelta(lastTokens[d], t).value
           IN  /\ ~h.threw
               /\ h.lastTokens[d] = SemanticTokens(t.resultId, rebuilt.data)
               /\ h.lastInactiveRanges[d] = computeInactiveRanges(rebuilt)
               /\ h.ret = replaceInactiveRanges(rebuilt)
               /\ h.ret.resultId = t.resultId
               /\ isSemanticTokens(h.ret)
               /\ h.decodes = 1

\* a delta replaced a comment token by a type token: the cache holds the
\* rebuilt buffer under the new resultId
C4_Witness ==
    /\ call.op = "edits"
    /\ call.document = "d1"
    /\ "d1" \in DOMAIN lastTokens
    /\ lastTokens["d1"] = SemanticTokens("r2", TokType)
    /\ call.ret = SemanticTokens("r2", TokType)
    /\ call.decodes = 1
    /\ inactiveCodeTokenTypeIndex = 1

\* C5: a cached buffer is always a payload as it was received or the buffer
\* rebuilt from the previously cached one; no handler writes a remapped or
\* otherwise changed buffer into the cache.
C5Step ==
    \A d \in DOMAIN lastTokens' :
        \/ d \in DOMAIN lastTokens /\ lastTokens'[d] = lastTokens[d]
        \/ \E t \in FullPayloads(d) : lastTokens'[d] = t
        \/ /\ d \in DOMAIN lastTokens
           /\ \E t \in EditPayloads(d) :
                 applyDelta(lastTokens[d], t) =
                     [threw |-> FALSE, value |-> lastTokens'[d]]

C5_CacheKeepsOriginal == [][C5Step]_vars

\* a comment token was cached and its remapped copy returned: the two differ
C5_Witness ==
    /\ call.op = "full"
    /\ call.document = "d1"
    /\ lastTokens["d1"].data = TokComment
    /\ call.ret.data # TokComment
    /\ call.ret.data = <<0, 2, 3, 2, 0>>

\* C8: a visible-editors-changed event issues, for every listed view whose
\* document has cached ranges, exactly one rendering request carrying those
\* ranges, decodes nothing and writes neither cache.
C8Step ==
    \A editors \in SUBSET Editors :
        VisibleTextEditorsChanged(editors)
        => /\ \A e \in editors :
                 IF EditorDocument[e] \in DOMAIN lastInactiveRanges
                 THEN /\ RequestsTo(call'.requests, e) = 1
                      /\ \A i \in 1..Len(call'.requests) :
                            call'.requests[i].editor = e
                            => call'.requests[i].ranges =
                                   lastInactiveRanges[EditorDocument[e]]
                 ELSE RequestsTo(call'.requests, e) = 0
           /\ \A e \in Editors \ editors : RequestsTo(call'.requests, e) = 0
           /\ call'.decodes = 0
           /\ UNCHANGED <<lastTokens, lastInactiveRanges>>

C8_VisibilityReapplication == [][C8Step]_vars

\* one view of d1 became visible after a comment token was cached for d1
C8_Witness ==
    /\ call.op = "visible"
    /\ visibleTextEditors = {"e1"}
    /\ "d1" \in DOMAIN lastInactiveRanges
    /\ lastInactiveRanges["d1"] = <<Range(0, 2, 0, 5)>>
    /\ call.requests = <<[editor |-> "e1", ranges |-> <<Range(0, 2, 0, 5)>>]>>

\* an edit reaches outside the buffer it is applied to
OutOfBounds(data, edits) ==
    \E i \in 1..Len(edits) :
        edits[i].start > Len(data)
        \/ edits[i].start + edits[i].deleteCount > Len(data)

\* C9: a malformed payload (a full buffer whose length is no multiple of 5, a
\* delta whose rebuilt buffer has such a length, a delta with an edit outside
\* the cached buffer) leaves the cached buffer, resultId and ranges of the
\* document as they were.
C9Step ==
    /\ \A d \in Documents : \A t \in FullPayloads(d) :
          (FullTokens(d, t) /\ Len(t.data) % Stride # 0)
          => UNCHANGED <<lastTokens, lastInactiveRanges>>
    /\ \A d \in Documents, p \in ResultIds : \A t \in EditPayloads(d) :
          ( /\ TokensEdits(d, p, t)
            /\ d \in DOMAIN lastTokens
            /\ lastTokens[d].resultId = p
            /\ \/ OutOfBounds(lastTokens[d].data, t.edits)
               \/ (Len(lastTokens[d].data) + DeltaLength(t.edits)) % Stride # 0 )
          => UNCHANGED <<lastTokens, lastInactiveRanges>>

C9_MalformedLeavesCache == [][C9Step]_vars

----------------------------------------------------------------------------
(* The codec and the reconstructor on their own: SpecCodec calls            *)
(* computeInactiveRanges, replaceInactiveRanges and applyDelta on bounded    *)
(* inputs after initialize, one call at a time.                              *)

MaxTokens == 2
MaxSrcLen == 3
MaxEdits == 2

ExampleBuffer == <<0, 5, 3, 7, 0,  0, 3, 4, 7, 0,  1, 2, 6, 7, 0>>
ExampleLegend == <<"namespace", "type", "class", "enum", "interface",
                   "struct", "typeParameter", "comment">>

CodecCapabilities ==
    {NoProvider, Provider(<<"type">>), Provider(<<"type", "comment">>),
     Provider(<<"comment", "type", "comment">>), Provider(ExampleLegend)}

CodecTokens ==
    {<<deltaLine, deltaCharacter, length, type, 0>> :
        deltaLine \in {0, 1}, deltaCharacter \in {2, 4}, length \in {1, 3},
        type \in {0, 1, 2}}

RECURSIVE TokenSeqs(_)
TokenSeqs(n) ==
    IF n = 0 THEN {<<>>}
    ELSE LET shorter == TokenSeqs(n - 1)
         IN  shorter \cup {b \o t : b \in shorter, t \in CodecTokens}

CodecBuffers == TokenSeqs(MaxTokens) \cup {ExampleBuffer}

\* the source buffers of applyDelta: n distinct elements
Iota(n) == [i \in 1..n |-> 10 + i]

InsertData ==
    {[hasData |-> FALSE, data |-> <<>>], [hasData |-> TRUE, data |-> <<91>>],
     [hasData |-> TRUE, data |-> <<92, 93>>]}

\* the edit lists of at most k edits on a buffer of len elements that are
\* sorted by start, do not overlap and stay inside the buffer, from offset from
RECURSIVE EditsFrom(_, _, _)
EditsFrom(len, from, k) ==
    IF k = 0 THEN {<<>>}
    ELSE {<<>>} \cup
         UNION { { <<SemanticTokensEdit(p[1], p[2], d.hasData, d.data)>> \o rest :
                       d \in InsertData,
                       rest \in EditsFrom(len, p[1] + p[2], k - 1) } :
                 p \in {q \in (from..len) \X (0..len) : q[1] + q[2] <= len} }

\* single edits, some of them outside the buffer
SingleEdits(len) ==
    { <<SemanticTokensEdit(start, deleteCount, d.hasData, d.data)>> :
          start \in 0..len + 1, deleteCount \in 0..len + 1,
          d \in InsertData \cup {[hasData |-> TRUE, data |-> <<>>]} }

\* pairs of edits in descending order
UnsortedEdits(len) ==
    { <<SemanticTokensEdit(len, 0, TRUE, <<91>>),
        SemanticTokensEdit(0, deleteCount, FALSE, <<>>)>> :
          deleteCount \in 0..len }

Idle ==
    [op |-> "idle", document |-> "", ret |-> NoValue, requests |-> <<>>,
     decodes |-> 0, stores |-> 0, threw |-> FALSE]

CodecIdle == initialized /\ call.op \in {"initialize", "idle"}

\* lines 118 and 120 on one buffer
CodecCall ==
    /\ CodecIdle
    /\ \E d \in CodecBuffers :
          LET tokens == SemanticTokens("r1", d)
          IN  call' = [op |-> "codec", document |-> "", tokens |-> tokens,
                       ranges |-> computeInactiveRanges(tokens),
                       ret |-> replaceInactiveRanges(tokens),
                       requests |-> <<>>, decodes |-> 1, stores |-> 0,
                       threw |-> FALSE]
    /\ UNCHANGED <<inactiveCodeTokenTypeIndex,
                   inactiveCodeTokenTypeReplaceIndex, lastTokens,
                   lastInactiveRanges, visibleTextEditors, decorations,
                   initialized>>

\* line 171 on one buffer and one edit list
ApplyDeltaCall ==
    /\ CodecIdle
    /\ \E n \in 0..MaxSrcLen :
          \E e \in EditsFrom(n, 0, MaxEdits) \cup SingleEdits(n)
                   \cup UnsortedEdits(n) :
              LET prev    == SemanticTokens("r1", Iota(n))
                  delta   == SemanticTokensEdits("r2", e)
                  applied == applyDelta(prev, delta)
              IN  call' = [op |-> "applyDelta", document |-> "",
                           tokens |-> prev, delta |-> delta,
                           ret |-> applied.value, requests |-> <<>>,
                           decodes |-> 0, stores |-> 0,
                           threw |-> applied.threw]
    /\ UNCHANGED <<inactiveCodeTokenTypeIndex,
                   inactiveCodeTokenTypeReplaceIndex, lastTokens,
                   lastInactiveRanges, visibleTextEditors, decorations,
                   initialized>>

CodecReturn ==
    /\ call.op \in {"codec", "applyDelta"}
    /\ call' = Idle
    /\ UNCHANGED <<inactiveCodeTokenTypeIndex,
                   inactiveCodeTokenTypeReplaceIndex, lastTokens,
                   lastInactiveRanges, visibleTextEditors, decorations,
                   initialized>>

NextCodec ==
    \/ \E c \in CodecCapabilities : initialize(c)
    \/ CodecCall
    \/ ApplyDeltaCall
    \/ CodecReturn

SpecCodec == Init /\ [][NextCodec]_vars

----------------------------------------------------------------------------
(* Claims about the codec and the reconstructor                             *)

\* array.splice(at, deleteCount, ...data) on a sequence
Splice(seq, at, deleteCount, data) ==
    SubSeq(seq, 1, at) \o data \o SubSeq(seq, at + deleteCount + 1, Len(seq))

\* the edits spliced one after the other into a mutable copy; an offset into
\* the original buffer is moved by what the earlier edits inserted and deleted
RECURSIVE NaiveSplice(_, _, _)
NaiveSplice(seq, edits, shift) ==
    IF edits = <<>> THEN seq
    ELSE LET edit == Head(edits)
             data == IF edit.hasData THEN edit.data ELSE <<>>
         IN  NaiveSplice(Splice(seq, edit.start + shift, edit.deleteCount, data),
                         Tail(edits),
                         shift + Len(data) - edit.deleteCount)

\* sorted by ascending start, not overlapping, inside the buffer
SortedDisjointInside(data, edits) ==
    /\ \A i \in 1..Len(edits) :
          edits[i].start + edits[i].deleteCount <= Len(data)
    /\ \A i \in 1..Len(edits) - 1 :
          edits[i].start + edits[i].deleteCount <= edits[i + 1].start

\* C1: for a buffer B and edits sorted by ascending start, not overlapping and
\* inside B, applyDelta(B, E) returns the buffer that splicing each edit into a
\* mutable copy of B gives, the offsets being those of the original B.
C1_RoundTrip ==
    ( /\ call.op = "applyDelta"
      /\ SortedDisjointInside(call.tokens.data, call.delta.edits) )
    => /\ ~call.threw
       /\ call.ret.data = NaiveSplice(call.tokens.data, call.delta.edits, 0)
       /\ call.ret.resultId = call.delta.resultId

\* an insertion at the start and a deletion at the end of a 3-element buffer
C1_Witness ==
    /\ call.op = "applyDelta"
    /\ call.tokens.data = <<11, 12, 13>>
    /\ call.delta.edits = <<SemanticTokensEdit(0, 0, TRUE, <<92, 93>>),
                            SemanticTokensEdit(2, 1, FALSE, <<>>)>>
    /\ call.ret.data = <<92, 93, 11, 12>>

\* the tuples of an aligned buffer, numbered from 0, and their fields
Tuples(data) == 0..(Len(data) \div Stride) - 1
Field(data, k, f) == data[Stride * k + f + 1]
InactiveTuples(data) ==
    {k \in Tuples(data) : Field(data, k, 3) = inactiveCodeTokenTypeIndex}

\* C6: for an aligned buffer B and resolved indices, decode(B) has one range
\* per tuple whose typeIndex is the inactive index, in order and with that
\* tuple's length; remap(B) has the sentinel in the type field of exactly
\* those tuples and equals B everywhere else, with B's length and resultId.
C6_DecodeRemapAgreement ==
    ( /\ call.op = "codec"
      /\ Len(call.tokens.data) % Stride = 0
      /\ inactiveCodeTokenTypeIndex # undefined )
    => LET B == call.tokens.data
           R == call.ret.data
           hits == InactiveTuples(B)
           \* the position of the i-th inactive tuple
           nth(i) == CHOOSE k \in hits :
                        Cardinality({j \in hits : j <= k}) = i
       IN  /\ Len(call.ranges) = Cardinality(hits)
           /\ \A i \in 1..Len(call.ranges) :
                 call.ranges[i].endCharacter - call.ranges[i].startCharacter
                     = Field(B, nth(i), 2)
           /\ Len(R) = Len(B)
           /\ call.ret.resultId = call.tokens.resultId
           /\ \A k \in Tuples(B) :
                 /\ \A f \in {0, 1, 2, 4} : Field(R, k, f) = Field(B, k, f)
                 /\ Field(R, k, 3) = IF k \in hits
                                     THEN inactiveCodeTokenTypeReplaceIndex
                                     ELSE Field(B, k, 3)

\* a type token followed by a comment token, under the legend type, comment
C6_Witness ==
    /\ call.op = "codec"
    /\ inactiveCodeTokenTypeIndex = 1
    /\ inactiveCodeTokenTypeReplaceIndex = 2
    /\ call.tokens.data = <<1, 2, 3, 0, 0,  0, 4, 1, 1, 0>>
    /\ call.ret.data = <<1, 2, 3, 0, 0,  0, 4, 1, 2, 0>>
    /\ call.ranges = <<Range(1, 6, 1, 7)>>

\* absolute line and column of tuple k, from the definition of the encoding
RECURSIVE AbsLine(_, _)
AbsLine(data, k) ==
    Field(data, k, 0) + (IF k = 0 THEN 0 ELSE AbsLine(data, k - 1))

RECURSIVE AbsChar(_, _)
AbsChar(data, k) ==
    IF Field(data, k, 0) # 0 THEN Field(data, k, 1)
    ELSE Field(data, k, 1) + (IF k = 0 THEN 0 ELSE AbsChar(data, k - 1))

\* C7: computeInactiveRanges emits, in buffer order, one range per tuple whose
\* typeIndex is the inactive index, on the line that is the sum of the
\* deltaLines up to that tuple, starting at deltaStartChar if the tuple's
\* deltaLine is not 0 and at the previous tuple's start plus deltaStartChar
\* otherwise, and ending length further; the example buffer with inactive
\* index 7 gives (0,5)-(0,8), (0,8)-(0,12), (1,2)-(1,8).
C7_RelativeOffsetDecoding ==
    ( /\ call.op = "codec"
      /\ Len(call.tokens.data) % Stride = 0 )
    => LET B == call.tokens.data
           hits == InactiveTuples(B)
       IN  /\ Len(call.ranges) = Cardinality(hits)
           /\ \A k \in hits :
                 LET i == Cardinality({j \in hits : j <= k})
                 IN  call.ranges[i] =
                         Range(AbsLine(B, k), AbsChar(B, k), AbsLine(B, k),
                               AbsChar(B, k) + Field(B, k, 2))
           /\ (B = ExampleBuffer /\ inactiveCodeTokenTypeIndex = 7)
              => call.ranges = <<Range(0, 5, 0, 8), Range(0, 8, 0, 12),
                                 Range(1, 2, 1, 8)>>

\* the example buffer decoded under a legend with comment at position 7
C7_Witness ==
    /\ call.op = "codec"
    /\ call.tokens.data = ExampleBuffer
    /\ inactiveCodeTokenTypeIndex = 7
    /\ Len(call.ranges) = 3

\* C10: for an aligned buffer B with no tuple whose typeIndex is the inactive
\* index, remap(B) equals B element for element and decode(B) is empty.
C10_RemapIdentityWithoutInactive ==
    ( /\ call.op = "codec"
      /\ Len(call.tokens.data) % Stride = 0
      /\ InactiveTuples(call.tokens.data) = {} )
    => /\ call.ret.data = call.tokens.data
       /\ call.ranges = <<>>

\* two type tokens under the legend type, comment; the first has length 1,
\* the value of the inactive index
C10_Witness ==
    /\ call.op = "codec"
    /\ inactiveCodeTokenTypeIndex = 1
    /\ call.tokens.data = <<0, 2, 1, 0, 0,  1, 4, 3, 2, 0>>
    /\ call.ret.data = call.tokens.data
    /\ call.ranges = <<>>

----------------------------------------------------------------------------
(* A backend that keeps its promises: SpecBackend delivers, in any order     *)
(* and any number of times, the full buffers of a fixed history of versions  *)
(* and the correct deltas between them.                                      *)

\* the versions of each document: every one has its own resultId
BackendBuffer(document, resultId) ==
    IF document = "d1"
    THEN CASE resultId = "r1" -> TokComment
           [] resultId = "r2" -> TokType
           [] resultId = "r3" -> TokType \o TokComment
    ELSE CASE resultId = "r1" -> TokComment
           [] resultId = "r2" -> <<>>

BackendResultIds(document) ==
    IF document = "d1" THEN {"r1", "r2", "r3"} ELSE {"r1", "r2"}

SeqFrom(seq, i) == SubSeq(seq, i, Len(seq))

\* the edit lists of at most k edits, at offsets from offset on, that turn the
\* rest s of a buffer into t the way a diff does: an edit deletes or inserts
\* something, what it deletes and what it inserts neither start nor end with
\* the same element, and gap elements are kept before it
RECURSIVE EditsTurning(_, _, _, _, _)
EditsTurning(s, t, offset, k, gap) ==
    (IF s = t THEN {<<>>} ELSE {}) \cup
    (IF k = 0 THEN {}
     ELSE UNION {
            { <<SemanticTokensEdit(offset + q[1], q[2], TRUE,
                                   SubSeq(t, q[1] + 1, q[1] + q[3]))>> \o rest :
                  rest \in EditsTurning(SeqFrom(s, q[1] + q[2] + 1),
                                        SeqFrom(t, q[1] + q[3] + 1),
                                        offset + q[1] + q[2], k - 1, 1) } :
            q \in { r \in (gap..Len(s)) \X (0..Len(s)) \X (0..Len(t)) :
                      /\ r[1] + r[2] <= Len(s)
                      /\ r[1] + r[3] <= Len(t)
                      /\ r[2] + r[3] > 0
                      /\ SubSeq(s, 1, r[1]) = SubSeq(t, 1, r[1])
                      /\ (r[2] > 0 /\ r[3] > 0)
                         => /\ s[r[1] + 1] # t[r[1] + 1]
                            /\ s[r[1] + r[2]] # t[r[1] + r[3]] } })

\* the edit lists a backend may send to turn buffer s into t: the diffs, and
\* the replacement of the whole buffer
BackendEdits(s, t) ==
    EditsTurning(s, t, 0, MaxEdits, 0)
    \cup {<<SemanticTokensEdit(0, Len(s), TRUE, t)>>}

\* the deltas of a document: an edit list is correct when splicing it into
\* the buffer of previousResultId gives the buffer of resultId
DeltasOf(document) ==
    UNION { { [previousResultId |-> p, tokens |-> SemanticTokensEdits(r, e)] :
                e \in { x \in BackendEdits(BackendBuffer(document, p),
                                           BackendBuffer(document, r)) :
                          /\ SortedDisjointInside(BackendBuffer(document, p), x)
                          /\ NaiveSplice(BackendBuffer(document, p), x, 0)
                                 = BackendBuffer(document, r) } } :
            p \in BackendResultIds(document), r \in BackendResultIds(document) }

\* computed once for the whole check
BackendDeltaTable == [d \in Documents |-> DeltasOf(d)]
BackendDeltas(document) == BackendDeltaTable[document]

BackendFulls(document) ==
    {SemanticTokens(r, BackendBuffer(document, r)) :
        r \in BackendResultIds(document)}

BackendFull ==
    \E d \in Documents : \E t \in BackendFulls(d) :
        \/ FullTokens(d, t)
        \/ \E p \in BackendResultIds(d) : TokensEdits(d, p, t)

BackendDelta ==
    \E d \in Documents : \E x \in BackendDeltas(d) :
        TokensEdits(d, x.previousResultId, x.tokens)

\* the editors stay hidden: what is visible has no part in what is cached
NextBackend ==
    \/ \E c \in Capabilities : initialize(c)
    \/ BackendFull
    \/ BackendDelta

SpecBackend == Init /\ [][NextBackend]_vars

\* C3: with a backend that gives every buffer version its own resultId and
\* sends only correct deltas, after any sequence of full and delta payloads
\* the cached buffer of a document is the backend's buffer for the cached
\* resultId, and a delta whose previousResultId is not the cached resultId is
\* returned as a cache miss and not applied.
C3_CacheConsistency ==
    /\ \A d \in DOMAIN lastTokens :
          /\ lastTokens[d].resultId \in BackendResultIds(d)
          /\ lastTokens[d].data = BackendBuffer(d, lastTokens[d].resultId)
    /\ initialized =>
       \A d \in Documents : \A x \in BackendDeltas(d) :
          (d \notin DOMAIN lastTokens
           \/ lastTokens[d].resultId # x.previousResultId)
          => LET h == provideDocumentSemanticTokensEdits(
                          Entry, d, x.previousResultId, x.tokens)
             IN  h.ret = x.tokens /\ h.lastTokens = lastTokens

\* the delta from r2 to r3 was applied to d1 after the full buffer of r2
C3_Witness ==
    /\ call.op = "edits"
    /\ call.document = "d1"
    /\ call.decodes = 1
    /\ "d1" \in DOMAIN lastTokens
    /\ lastTokens["d1"] = SemanticTokens("r3", TokType \o TokComment)
    /\ "d2" \in DOMAIN lastTokens

----------------------------------------------------------------------------
(* Further claims about the session                                         *)

\* the buffer a payload handler run has just processed: the one it cached
Processed == call.op \in {"full", "edits"} /\ call.stores = 1

\* C11: in a session in which no inactive index was recorded (no legend, or a
\* legend without "comment"), every payload that is processed decodes to no
\* ranges and is returned element for element as it was cached.
C11_MissingLegendInert ==
    (Processed /\ inactiveCodeTokenTypeIndex = undefined)
    => /\ lastInactiveRanges[call.document] = <<>>
       /\ call.ret.data = lastTokens[call.document].data

\* the same, of the payloads whose buffer is made of whole tokens
C11_InertOnWholeTokens ==
    ( /\ Processed
      /\ inactiveCodeTokenTypeIndex = undefined
      /\ Len(lastTokens[call.document].data) % Stride = 0 )
    => /\ lastInactiveRanges[call.document] = <<>>
       /\ call.ret.data = lastTokens[call.document].data

----------------------------------------------------------------------------
(* Sessions with two views of one document and any of the legends:          *)
(* SpecViews follows d1 through two versions and the edits between them      *)
(* while any set of the three editors is visible.                            *)

ViewFulls(document) ==
    IF document = "d1"
    THEN {SemanticTokens("r1", TokComment), SemanticTokens("r2", TokType)}
    ELSE {SemanticTokens("r1", TokComment)}

\* the edits of d1: a whole token replaced, and the type field of the token
\* alone replaced (offset 3, in integers)
ViewEdits(document) ==
    IF document = "d1"
    THEN {SemanticTokensEdits("r2", <<SemanticTokensEdit(0, 5, TRUE, TokType)>>),
          SemanticTokensEdits("r1", <<SemanticTokensEdit(3, 1, TRUE, <<1>>)>>)}
    ELSE {}

NextViews ==
    \/ \E c \in CodecCapabilities : initialize(c)
    \/ \E d \in Documents : \E t \in ViewFulls(d) : FullTokens(d, t)
    \/ \E d \in Documents, p \in ResultIds :
          \E t \in ViewEdits(d) : TokensEdits(d, p, t)
    \/ \E editors \in SUBSET Editors : VisibleTextEditorsChanged(editors)

SpecViews == Init /\ [][NextViews]_vars

\* the token types of a legend
Categories(tokenTypes) == {tokenTypes[i] : i \in 1..Len(tokenTypes)}

\* C12: initialize on a legend records its length as the replacement index
\* and, when the legend contains "comment", an inactive index i with
\* legend[i] = "comment"; no payload handler and no visibility handler writes
\* either index.
C12Step ==
    /\ \A c \in CodecCapabilities :
          (initialize(c) /\ c.hasProvider)
          => /\ inactiveCodeTokenTypeReplaceIndex' = Len(c.tokenTypes)
             /\ "comment" \in Categories(c.tokenTypes)
                => /\ inactiveCodeTokenTypeIndex' \in 0..Len(c.tokenTypes) - 1
                   /\ c.tokenTypes[inactiveCodeTokenTypeIndex' + 1] = "comment"
    /\ call'.op \in {"full", "edits", "visible"}
       => UNCHANGED <<inactiveCodeTokenTypeIndex,
                      inactiveCodeTokenTypeReplaceIndex>>

C12_CapabilityResolution == [][C12Step]_vars

\* a delta was applied in a session whose legend names "comment" twice
C12_Witness ==
    /\ inactiveCodeTokenTypeIndex = 2
    /\ inactiveCodeTokenTypeReplaceIndex = 3
    /\ call.op = "edits"
    /\ call.stores = 1
    /\ visibleTextEditors # {}

----------------------------------------------------------------------------
(* Claims about the two caches                                              *)

\* the entry of a document in a WeakMap, or none
Cached(map, document) ==
    IF document \in DOMAIN map THEN <<map[document]>> ELSE <<>>

\* C13: a payload handler run for document A, whether it processes a full
\* payload, applies a delta, misses the cache or throws, leaves the cached
\* buffer, resultId and ranges of every other document B as they were.
C13Step ==
    \A b \in Documents :
        (call'.op \in {"full", "edits"} /\ call'.document # b)
        => /\ Cached(lastTokens', b) = Cached(lastTokens, b)
           /\ Cached(lastInactiveRanges', b) = Cached(lastInactiveRanges, b)

C13_DocumentIsolation == [][C13Step]_vars

\* a delta for d1 threw while d2 had a cached buffer and ranges
C13_Witness ==
    /\ call.op = "edits"
    /\ call.document = "d1"
    /\ call.threw
    /\ "d1" \in DOMAIN lastTokens
    /\ "d2" \in DOMAIN lastTokens
    /\ "d2" \in DOMAIN lastInactiveRanges


\* a buffer made of whole tokens
WholeTokens(data) == Len(data) % Stride = 0

\* C14: the length of every cached buffer and of every buffer returned is a
\* multiple of 5.  Stated as what every payload preserves: when the cached
\* buffers are made of whole tokens, a handler run on a full payload of whole
\* tokens or on a delta, whose offsets and counts are in integers, leaves
\* only buffers of whole tokens in the cache and returns one.
C14_BufferStride ==
    ( /\ initialized
      /\ \A d \in DOMAIN lastTokens : WholeTokens(lastTokens[d].data) )
    => \A d \in Documents, p \in ResultIds : \A t \in Payloads(d) :
          (isSemanticTokens(t) => WholeTokens(t.data))
          => LET h == provideDocumentSemanticTokensEdits(Entry, d, p, t)
             IN  /\ \A x \in DOMAIN h.lastTokens :
                       WholeTokens(h.lastTokens[x].data)
                 /\ isSemanticTokens(h.ret) => WholeTokens(h.ret.data)

----------------------------------------------------------------------------
(* Claims about the decorations                                             *)

\* the ranges of the setDecorations calls a handler run made on an editor
RangesSentTo(requests, editor) ==
    {requests[i].ranges : i \in {j \in 1..Len(requests) :
                                     requests[j].editor = editor}}

\* C15: a visible-editors-changed event issues no rendering request for a
\* listed view whose document has no cached ranges, raises no error and
\* creates no cache entry; the first payload processed for such a document
\* issues the request to its visible views.  Stated of the handler runs on
\* every set of views and every full payload in every reachable state.
C15_NoRangesNoRequest ==
    initialized =>
    /\ \A editors \in SUBSET Editors :
          LET h == onDidChangeVisibleTextEditors(Entry, editors)
          IN  /\ ~h.threw
              /\ h.lastTokens = lastTokens
              /\ h.lastInactiveRanges = lastInactiveRanges
              /\ \A e \in editors :
                    EditorDocument[e] \notin DOMAIN lastInactiveRanges
                    => /\ RequestsTo(h.requests, e) = 0
                       /\ Cached(h.decorations, e) = Cached(decorations, e)
    /\ \A d \in Documents \ DOMAIN lastInactiveRanges :
          \A t \in ViewFulls(d) :
              LET h == provideDocumentSemanticTokens(Entry, d, t)
              IN  \A e \in visibleTextEditors :
                      EditorDocument[e] = d
                      => /\ RequestsTo(h.requests, e) = 1
                         /\ RangesSentTo(h.requests, e) =
                                {computeInactiveRanges(t)}

\* the views of d1 and d2 were listed while only d1 had cached ranges: the
\* requests went to the two views of d1 and none to the view of d2
C15_Witness ==
    /\ call.op = "visible"
    /\ visibleTextEditors = Editors
    /\ "d2" \notin DOMAIN lastInactiveRanges
    /\ "d1" \in DOMAIN lastInactiveRanges
    /\ Len(call.requests) = 2
    /\ RequestsTo(call.requests, "e2") = 0
    /\ "e2" \notin DOMAIN decorations


\* C16: between handlers a document has cached ranges exactly when it has a
\* cached buffer, and the ranges are the decode of that buffer; a handler run
\* that processes a payload (a full one, or a delta it rebuilt) has written
\* each cache once, and any other run has written neither.
C16_CacheCoherence ==
    /\ DOMAIN lastInactiveRanges = DOMAIN lastTokens
    /\ \A d \in DOMAIN lastTokens :
          lastInactiveRanges[d] = computeInactiveRanges(lastTokens[d])
    /\ call.op = "full" => call.stores = 1 /\ call.decodes = 1
    /\ call.op = "edits"
       => IF isSemanticTokens(call.ret) /\ ~call.threw
          THEN call.stores = 1 /\ call.decodes = 1
          ELSE call.stores = 0 /\ call.decodes = 0
    /\ call.op = "visible" => call.stores = 0 /\ call.decodes = 0

\* a delta put a comment token where an empty buffer was cached: the ranges
\* of d1 are those of the rebuilt buffer
C16_Witness ==
    /\ call.op = "edits"
    /\ call.document = "d1"
    /\ call.stores = 1
    /\ "d1" \in DOMAIN lastTokens
    /\ lastTokens["d1"].data = TokComment
    /\ lastInactiveRanges["d1"] = <<Range(0, 2, 0, 5)>>
    /\ "d2" \in DOMAIN lastTokens


\* what C17 says of a handler run h that processed the buffer tokens for
\* document d: one request to each visible view of d, with the ranges decoded
\* from tokens, and none to any other view
DecoratedWith(h, d, tokens) ==
    \A e \in Editors :
        IF e \in visibleTextEditors /\ EditorDocument[e] = d
        THEN /\ RequestsTo(h.requests, e) = 1
             /\ RangesSentTo(h.requests, e) = {computeInactiveRanges(tokens)}
             /\ h.decorations[e] = computeInactiveRanges(tokens)
        ELSE /\ RequestsTo(h.requests, e) = 0
             /\ Cached(h.decorations, e) = Cached(decorations, e)

\* C17: processing a full payload, or a delta that was rebuilt, for document
\* D issues one rendering request to every visible view of D and to no other
\* view, and every request carries the ranges decoded from the new buffer,
\* not the ranges cached before.  Stated of the handler runs on every payload
\* in every reachable state.
C17_DecorationOnPayload ==
    initialized =>
    \A d \in Documents :
        /\ \A t \in ViewFulls(d) :
              /\ DecoratedWith(provideDocumentSemanticTokens(Entry, d, t), d, t)
              /\ \A p \in ResultIds :
                    DecoratedWith(provideDocumentSemanticTokensEdits(
                                      Entry, d, p, t), d, t)
        /\ \A t \in ViewEdits(d) :
              (d \in DOMAIN lastTokens /\ ~applyDelta(lastTokens[d], t).threw)
              => DecoratedWith(provideDocumentSemanticTokensEdits(
                                   Entry, d, lastTokens[d].resultId, t),
                               d, applyDelta(lastTokens[d], t).value)

\* a delta turned the type token of d1 into a comment token while all three
\* views were visible: the two views of d1 got the new range
C17_Witness ==
    /\ call.op = "edits"
    /\ call.document = "d1"
    /\ visibleTextEditors = Editors
    /\ inactiveCodeTokenTypeIndex = 1
    /\ call.requests = <<[editor |-> "e1", ranges |-> <<Range(1, 1, 1, 3)>>],
                         [editor |-> "e3", ranges |-> <<Range(1, 1, 1, 3)>>]>>
    /\ "e2" \in DOMAIN decorations


\* C18: every change of the visible editors being delivered to the listener,
\* the last rendering request issued to a visible view whose document has
\* cached ranges carried the ranges that are cached now.
C18_DisplayedTracksCache ==
    \A e \in visibleTextEditors :
        EditorDocument[e] \in DOMAIN lastInactiveRanges
        => /\ e \in DOMAIN decorations
           /\ decorations[e] = lastInactiveRanges[EditorDocument[e]]

\* view e1 shows the range cached for d1 while the hidden view e3 of d1 still
\* has the ranges of an earlier payload
C18_Witness ==
    /\ visibleTextEditors = {"e1"}
    /\ "d1" \in DOMAIN lastInactiveRanges
    /\ lastInactiveRanges["d1"] = <<Range(0, 2, 0, 5)>>
    /\ "e1" \in DOMAIN decorations
    /\ decorations["e1"] = <<Range(0, 2, 0, 5)>>
    /\ "e3" \in DOMAIN decorations
    /\ decorations["e3"] = <<>>


\* C19: provideDocumentSemanticTokensEdits given a full payload (one with a
\* data field) processes it as provideDocumentSemanticTokens does, whatever
\* previousResultId is and whether or not the document has a cache entry: the
\* payload replaces the cached buffer, its decode the cached ranges, the
\* visible views of the document get those ranges, and the remapped copy is
\* returned.  Stated of the handler run on every full payload in every
\* reachable state.
C19_FullPayloadOnDeltaPath ==
    initialized =>
    \A d \in Documents, p \in ResultIds : \A t \in FullPayloads(d) :
        LET h == provideDocumentSemanticTokensEdits(Entry, d, p, t)
        IN  /\ ~h.threw
            /\ h.stores = 1 /\ h.decodes = 1
            /\ h.lastTokens[d] = t
            /\ h.lastInactiveRanges[d] = computeInactiveRanges(t)
            /\ \A e \in visibleTextEditors :
                  EditorDocument[e] = d
                  => /\ RequestsTo(h.requests, e) = 1
                     /\ h.decorations[e] = computeInactiveRanges(t)
            /\ h.ret = replaceInactiveRanges(t)
            /\ h = provideDocumentSemanticTokens(Entry, d, t)

\* the delta handler was given the full buffer of d2 (only a full payload of
\* d2 carries the resultId r1) and processed it: the visible view of d2 got
\* the range of the comment token and the remapped copy was returned
C19_Witness ==
    /\ call.op = "edits"
    /\ call.document = "d2"
    /\ call.stores = 1
    /\ "d2" \in DOMAIN lastTokens
    /\ lastTokens["d2"] = SemanticTokens("r1", TokComment)
    /\ call.ret = SemanticTokens("r1", <<0, 2, 3, 2, 0>>)
    /\ call.requests = <<[editor |-> "e2", ranges |-> <<Range(0, 2, 0, 5)>>]>>

----------------------------------------------------------------------------
(* The replacement index                                                    *)

\* a buffer with the replacement index mapped back to the inactive index
Unmapped(data) ==
    [i \in 1..Len(data) |->
        IF i % Stride = 4 /\ data[i] = inactiveCodeTokenTypeReplaceIndex
        THEN inactiveCodeTokenTypeIndex
        ELSE data[i]]

\* the legends with "comment" the session may have been initialized with:
\* those whose last "comment" is at the recorded inactive index
SessionLegends ==
    {c.tokenTypes : c \in {x \in CodecCapabilities :
        /\ initialized
        /\ "comment" \in Categories(x.tokenTypes)
        /\ \A i \in 1..Len(x.tokenTypes) :
              (x.tokenTypes[i] = "comment"
               /\ \A j \in i + 1..Len(x.tokenTypes) :
                      x.tokenTypes[j] # "comment")
              => inactiveCodeTokenTypeIndex = i - 1}}

\* C20: under a legend that contains "comment", for a buffer B of whole
\* tokens whose type fields are all positions of the legend, remap(B) has no
\* tuple of the inactive type, remap(remap(B)) = remap(B), and B is remap(B)
\* with the replacement index mapped back to the inactive index.
C20_SentinelDoesNotCollide ==
    \A legend \in SessionLegends :
        ( /\ call.op = "codec"
          /\ WholeTokens(call.tokens.data)
          /\ \A k \in Tuples(call.tokens.data) :
                Field(call.tokens.data, k, 3) < Len(legend) )
        => /\ InactiveTuples(call.ret.data) = {}
           /\ replaceInactiveRanges(call.ret) = call.ret
           /\ Unmapped(call.ret.data) = call.tokens.data

\* a comment token between two other tokens under the legend comment, type,
\* comment: only its type field became 3
C20_Witness ==
    /\ call.op = "codec"
    /\ inactiveCodeTokenTypeIndex = 2
    /\ inactiveCodeTokenTypeReplaceIndex = 3
    /\ call.tokens.data = <<0, 2, 3, 2, 0,  1, 4, 1, 0, 0>>
    /\ call.ret.data = <<0, 2, 3, 3, 0,  1, 4, 1, 0, 0>>

====
